---- MODULE Spec2Model ----
(***************************************************************************)
(* The box-counting engine of fractal_engine.py as a state machine.        *)
(*                                                                         *)
(* Numbers.  A float is a record [k, n, d]: k = "fin" is the rational n/d  *)
(* in lowest terms (d > 0), k = "nan" is NaN, k = "inf" is +inf (n = 1) or *)
(* -inf (n = -1).  Arithmetic is exact: rounding of IEEE doubles is not    *)
(* modelled.  Coordinates and box sizes are drawn from integers (degrees). *)
(***************************************************************************)
EXTENDS Integers, Sequences, FiniteSets, TLC

VARIABLES
    latitudes,       \* argument: sequence of floats
    longitudes,      \* argument: sequence of floats
    min_box_size,    \* argument of box_counting
    max_box_size,    \* argument of box_counting (None: omitted); reassigned at line 184
    num_scales,      \* argument of box_counting
    return_details,  \* argument of box_counting
    pc,              \* position of the box_counting call
    lat_range,       \* local of box_counting
    lon_range,       \* local of box_counting
    box_sizes,       \* local of box_counting: the generated scales
    counts,          \* local of box_counting: one count per scale already visited
    box_sizes_valid, \* local of box_counting: the scales with a count > 0
    counts_valid,    \* local of box_counting: their counts
    warnings,        \* warnings emitted by warnings.warn during the call
    fit,             \* (D, r_squared, std_err, intercept) of line 212
    results,         \* the returned dictionary
    error,           \* the exception that ended the call
    lat_arr,         \* local of box_counting: np.array(latitudes)
    lon_arr,         \* local of box_counting: np.array(longitudes)
    call,            \* the last direct call of validate_data / get_box_counts
    max_box_size_arg, \* the max_box_size the caller passed (None: omitted)
    prev,            \* the outcome of the caller's earlier box_counting call
    tasks,           \* counts of lines 198-201 computed so far, by scale index
    csv,             \* analyze_csv: the rows of the CSV file
    registry_file,   \* data_registry.py: the content of REGISTRY_FILE
    sessions         \* data_registry.py: the add_dataset call of each session

vars == <<latitudes, longitudes, min_box_size, max_box_size, num_scales,
          return_details, pc, lat_range, lon_range, box_sizes, counts,
          box_sizes_valid, counts_valid, warnings, fit, results, error,
          lat_arr, lon_arr, call, max_box_size_arg, prev, tasks, csv,
          registry_file, sessions>>

args == <<latitudes, longitudes, min_box_size, num_scales, return_details,
          max_box_size_arg>>

\* the state outside box_counting
outside == <<csv, registry_file, sessions>>

locals == <<lat_range, lon_range, box_sizes, counts, box_sizes_valid, counts_valid,
            warnings, fit, results, error>>

-----------------------------------------------------------------------------
(* Bounds of the model *)

\* SpecValidate: longest coordinate sequence handed to validate_data
MaxValLen == 2
\* SpecGrid: most points handed to get_box_counts
MaxGridPoints == 3
\* SpecGrid: largest coordinate (degrees) of a point
MaxGridCoord == 4
\* SpecGrid: largest box size (degrees) tried
MaxGridBox == 4

-----------------------------------------------------------------------------
(* Floats *)

None == [k |-> "none", n |-> 0, d |-> 1]
NaN == [k |-> "nan", n |-> 0, d |-> 1]
PosInf == [k |-> "inf", n |-> 1, d |-> 1]
NegInf == [k |-> "inf", n |-> -1, d |-> 1]

AbsInt(i) == IF i < 0 THEN -i ELSE i

RECURSIVE Gcd(_, _)
Gcd(a, b) == IF b = 0 THEN a ELSE Gcd(b, a % b)

\* the rational n/d (d # 0) in lowest terms with a positive denominator
Q(n, d) ==
    LET g == Gcd(AbsInt(n), AbsInt(d))
        s == IF d < 0 THEN -1 ELSE 1
    IN  [k |-> "fin", n |-> (s * n) \div g, d |-> (s * d) \div g]

F(i) == [k |-> "fin", n |-> i, d |-> 1]

\* np.isfinite
isfinite(x) == x.k = "fin"

\* x > limit for a float x and an integer limit; False for NaN as in IEEE
GtInt(x, limit) ==
    CASE x.k = "fin" -> x.n > limit * x.d
      [] x.k = "inf" -> x.n > 0
      [] OTHER -> FALSE

\* np.abs
abs(x) == IF x.k = "nan" THEN x ELSE [x EXCEPT !.n = AbsInt(x.n)]

\* a >= b on finite floats
Ge(a, b) == a.n * b.d >= b.n * a.d

Sub(a, b) == Q(a.n * b.d - b.n * a.d, a.d * b.d)

-----------------------------------------------------------------------------
(* Exceptions.  Every raise of the engine is a built-in ValueError; where  *)
(* distinguishes the raise statements.                                     *)

NoError == [cls |-> "none", where |-> "none"]
Raise(cls, where) == [cls |-> cls, where |-> where]

\* line 40
LatLimit == 90
\* line 43
LonLimit == 180

\* validate_data: NoError when it returns, the exception when it raises
ValidateDataSwapped(lats, lons) ==
    IF Len(lats) # Len(lons)
    THEN Raise("ValueError", "length mismatch")
    ELSE IF Len(lats) = 0 \/ Len(lons) = 0
    THEN Raise("ValueError", "empty")
    ELSE IF (\E i \in DOMAIN lats : GtInt(abs(lats[i]), LatLimit))
    THEN Raise("ValueError", "latitude range")
    ELSE IF (\E i \in DOMAIN lons : GtInt(abs(lons[i]), LonLimit))
    THEN Raise("ValueError", "longitude range")
    ELSE IF (\E i \in DOMAIN lats : ~isfinite(lats[i]))
            \/ (\E i \in DOMAIN lons : ~isfinite(lons[i]))
    THEN Raise("ValueError", "non-finite")
    ELSE NoError

ValidateDataNoLonCheck(lats, lons) ==
    IF Len(lats) = 0 \/ Len(lons) = 0
    THEN Raise("ValueError", "empty")
    ELSE IF Len(lats) # Len(lons)
    THEN Raise("ValueError", "length mismatch")
    ELSE IF (\E i \in DOMAIN lats : ~isfinite(lats[i]))
            \/ (\E i \in DOMAIN lons : ~isfinite(lons[i]))
    THEN Raise("ValueError", "non-finite")
    ELSE IF (\E i \in DOMAIN lats : GtInt(abs(lats[i]), LatLimit))
    THEN Raise("ValueError", "latitude range")
    ELSE IF (\E i \in DOMAIN lons : GtInt(lons[i], LonLimit))
    THEN Raise("ValueError", "longitude range")
    ELSE NoError

ValidateData(lats, lons) ==
    IF Len(lats) = 0 \/ Len(lons) = 0
    THEN Raise("ValueError", "empty")
    ELSE IF Len(lats) # Len(lons)
    THEN Raise("ValueError", "length mismatch")
    ELSE IF (\E i \in DOMAIN lats : ~isfinite(lats[i]))
            \/ (\E i \in DOMAIN lons : ~isfinite(lons[i]))
    THEN Raise("ValueError", "non-finite")
    ELSE IF (\E i \in DOMAIN lats : GtInt(abs(lats[i]), LatLimit))
    THEN Raise("ValueError", "latitude range")
    ELSE IF (\E i \in DOMAIN lons : GtInt(abs(lons[i]), LonLimit))
    THEN Raise("ValueError", "longitude range")
    ELSE NoError

-----------------------------------------------------------------------------
(* numpy helpers of get_box_counts, on integers *)

\* ndarray.min / ndarray.max of a non-empty array of integer-valued floats
ArrayMin(a) == CHOOSE m \in {a[i].n : i \in DOMAIN a} : \A i \in DOMAIN a : m <= a[i].n
ArrayMax(a) == CHOOSE m \in {a[i].n : i \in DOMAIN a} : \A i \in DOMAIN a : m >= a[i].n

\* ceil(a / b) for b > 0
CeilDiv(a, b) == -((-a) \div b)

\* an arange that produces its stop value as well
ArangeInclusive(start, stop, step) ==
    LET len == IF stop >= start THEN ((stop - start) \div step) + 1 ELSE 0
    IN  [i \in 1..len |-> start + (i - 1) * step]

\* np.arange(start, stop, step) for step > 0: ceil((stop - start) / step)
\* values start + i * step; stop itself is never produced
Arange(start, stop, step) ==
    LET len == IF stop > start THEN CeilDiv(stop - start, step) ELSE 0
    IN  [i \in 1..len |-> start + (i - 1) * step]

\* np.searchsorted(edges, x, side='right')
SearchSortedRight(edges, x) == Cardinality({i \in DOMAIN edges : edges[i] <= x})

\* the bin number without the closed last bin: a value on the last edge is
\* outside
BinNumberHalfOpen(edges, x) == SearchSortedRight(edges, x)

\* histogramdd's bin number of x: 0 and Len(edges) are the outlier bins; a value
\* on the rightmost edge is moved into the last inner bin
BinNumber(edges, x) ==
    LET c == SearchSortedRight(edges, x)
    IN  IF Len(edges) > 0 /\ x = edges[Len(edges)] THEN c - 1 ELSE c

\* np.histogram2d(x, y, bins=[xedges, yedges])[0]: the inner bins only
\* (Len(edges) - 1 per axis), each with the number of samples in it
Histogram2d(x, y, xedges, yedges) ==
    LET Ncount == [i \in DOMAIN x |->
                      <<BinNumber(xedges, x[i].n), BinNumber(yedges, y[i].n)>>]
    IN  [c \in (1..(Len(xedges) - 1)) \X (1..(Len(yedges) - 1)) |->
            Cardinality({i \in DOMAIN x : Ncount[i] = c})]

\* lines 69-70: the stop of np.arange, one box past the maximum
ArangeStop(amax, box_size) == amax + box_size

\* the bin edges of a grid anchored at the origin, not at the data minimum
GridBinsFromOrigin(a, box_size) ==
    Arange(0, ArangeStop(ArrayMax(a), box_size), box_size)

\* lines 65-70 for one axis and an integer box size > 0: the bin edges
GridBins(a, box_size) ==
    Arange(ArrayMin(a), ArangeStop(ArrayMax(a), box_size), box_size)

\* the cells with more than one point
NonEmptyBoxesGtOne(hist) == Cardinality({c \in DOMAIN hist : hist[c] > 1})

\* line 76: np.sum(hist > 0)
NonEmptyBoxes(hist) == Cardinality({c \in DOMAIN hist : hist[c] > 0})

\* the arrays with the minimum subtracted in place
ArraysShiftedInPlace(lats, lons) ==
    << [i \in DOMAIN lats |-> F(lats[i].n - ArrayMin(lats))],
       [i \in DOMAIN lons |-> F(lons[i].n - ArrayMin(lons))] >>

\* the caller's arrays after get_box_counts: lines 64-78 read them through
\* min, max and histogram2d and assign to no element
ArraysAfterGetBoxCounts(lats, lons) == <<lats, lons>>
\* get_box_counts for an integer box size > 0, with its locals
GetBoxCountsRun(lats, lons, box_size) ==
    LET lat_bins == GridBins(lats, box_size)
        lon_bins == GridBins(lons, box_size)
        hist == Histogram2d(lats, lons, lat_bins, lon_bins)
    IN  [box_size |-> box_size, lat_bins |-> lat_bins, lon_bins |-> lon_bins,
         hist |-> hist, ret |-> NonEmptyBoxes(hist)]

\* the value get_box_counts returns
GetBoxCounts(lats, lons, box_size) == GetBoxCountsRun(lats, lons, box_size).ret

-----------------------------------------------------------------------------
(* Defaults of the variables a specification leaves alone *)

NoCall == [fn |-> "none"]
NoFit == [D |-> None, r_squared |-> None, std_err |-> None, intercept |-> None]
NoResults == <<>>
NoPrev == [fn |-> "none"]
NoTasks == <<>>
NoSessions == <<>>

\* REGISTRY_FILE does not exist
NoFile == [kind |-> "missing", datasets |-> <<>>]

\* no CSV file is read and the registry is not used
OutsideIdle == csv = <<>> /\ registry_file = NoFile /\ sessions = NoSessions

\* the caller has made no call yet and passes max_box_size
FirstCall == max_box_size_arg = max_box_size /\ prev = NoPrev

LocalsAtEntry ==
    /\ pc = "validate"
    /\ lat_arr = <<>>
    /\ lon_arr = <<>>
    /\ lat_range = None
    /\ lon_range = None
    /\ box_sizes = <<>>
    /\ counts = <<>>
    /\ box_sizes_valid = <<>>
    /\ counts_valid = <<>>
    /\ warnings = <<>>
    /\ fit = NoFit
    /\ results = NoResults
    /\ error = NoError

\* all sequences over S of length lo..hi
SeqsOf(S, lo, hi) == UNION {[1..n -> S] : n \in lo..hi}

-----------------------------------------------------------------------------
(* box_counting, lines 171-176: conversion to arrays and validation *)

\* np.array on a sequence of numbers: a new array with the same values
NpArray(seq) == [i \in 1..Len(seq) |-> seq[i]]

Fail(e) ==
    /\ pc' = "failed"
    /\ error' = e

\* the check of line 187 made ahead of the validation
ValidateAfterBounds ==
    /\ pc = "validate"
    /\ lat_arr' = NpArray(latitudes)
    /\ lon_arr' = NpArray(longitudes)
    /\ LET e == ValidateData(NpArray(latitudes), NpArray(longitudes))
       IN  IF max_box_size # None /\ Ge(min_box_size, max_box_size)
           THEN Fail(Raise("ValueError", "min_box_size >= max_box_size"))
           ELSE IF e # NoError
           THEN Fail(e)
           ELSE pc' = "extent" /\ UNCHANGED error
    /\ UNCHANGED <<args, prev, tasks, outside, max_box_size, lat_range, lon_range, box_sizes, counts,
                   box_sizes_valid, counts_valid, warnings, fit, results, call>>

Validate ==
    /\ pc = "validate"
    /\ lat_arr' = NpArray(latitudes)
    /\ lon_arr' = NpArray(longitudes)
    /\ LET e == ValidateData(NpArray(latitudes), NpArray(longitudes))
       IN  IF e # NoError
           THEN Fail(e)
           ELSE pc' = "extent" /\ UNCHANGED error
    /\ UNCHANGED <<args, prev, tasks, outside, max_box_size, lat_range, lon_range, box_sizes, counts,
                   box_sizes_valid, counts_valid, warnings, fit, results, call>>

-----------------------------------------------------------------------------
(* box_counting, lines 178-188: spatial extent, default and check of the    *)
(* scale bounds                                                              *)

\* min(a, b) of two finite floats
FMin(a, b) == IF Ge(a, b) THEN b ELSE a

\* line 184: the divisor of the default max_box_size
ExtentDivisor == 4

\* a quarter of the larger range
DefaultMaxOfLarger(lat_r, lon_r) ==
    LET m == IF Ge(lat_r, lon_r) THEN lat_r ELSE lon_r
    IN  Q(m.n, ExtentDivisor * m.d)

DefaultMax(lat_r, lon_r) ==
    LET m == FMin(lat_r, lon_r) IN Q(m.n, ExtentDivisor * m.d)

Extent ==
    /\ pc = "extent"
    /\ lat_range' = Sub(F(ArrayMax(lat_arr)), F(ArrayMin(lat_arr)))
    /\ lon_range' = Sub(F(ArrayMax(lon_arr)), F(ArrayMin(lon_arr)))
    /\ max_box_size' = IF max_box_size = None
                       THEN DefaultMax(lat_range', lon_range')
                       ELSE max_box_size
    /\ pc' = "check"
    /\ UNCHANGED <<args, prev, tasks, outside, lat_arr, lon_arr, box_sizes, counts, box_sizes_valid,
                   counts_valid, warnings, fit, results, error, call>>

\* the check with > in place of >=
BoundsRejectedStrict(lo, hi) == ~Ge(hi, lo)
\* line 187: min_box_size >= max_box_size
BoundsRejected(lo, hi) == Ge(lo, hi)

CheckBounds ==
    /\ pc = "check"
    /\ IF BoundsRejected(min_box_size, max_box_size)
       THEN Fail(Raise("ValueError", "min_box_size >= max_box_size"))
       ELSE pc' = "scales" /\ UNCHANGED error
    /\ UNCHANGED <<args, prev, tasks, outside, max_box_size, lat_arr, lon_arr, lat_range, lon_range,
                   box_sizes, counts, box_sizes_valid, counts_valid, warnings,
                   fit, results, call>>

-----------------------------------------------------------------------------
(* box_counting, lines 190-195: np.logspace(log10(min), log10(max), num)     *)

RECURSIVE Pow(_, _)
Pow(r, k) == IF k = 0 THEN 1 ELSE r * Pow(r, k - 1)

\* the common ratio r of num log-spaced values from a to b (integers 0 < a < b):
\* r^(num - 1) = b / a.  Only integer ratios are modelled.
HasRatio(a, b, num) ==
    b % a = 0 /\ \E r \in 1..(b \div a) : Pow(r, num - 1) = b \div a

Ratio(a, b, num) == CHOOSE r \in 1..(b \div a) : Pow(r, num - 1) = b \div a

\* 10 ** np.log10(x) for an integer-valued x: x itself when x > 0, 0.0 when
\* x = 0 (10 ** -inf), NaN when x < 0
Pow10Log10(x) == IF x.n > 0 THEN x ELSE IF x.n = 0 THEN F(0) ELSE NaN

\* np.logspace(np.log10(a), np.log10(b), num) for num >= 0.  np.linspace gives
\* [start] for num = 1 and sets the last value to stop for num > 1; with
\* start = log10(a) NaN or -inf (a <= 0) every other value is NaN.
\* the series without its last value
LogSpaceDropLast(a, b, num) ==
    IF a.n > 0 /\ b.n > 0
    THEN [i \in 1..(num - 1) |-> F(a.n * Pow(Ratio(a.n, b.n, num), i - 1))]
    ELSE [i \in 1..(num - 1) |-> NaN]

LogSpace(a, b, num) ==
    IF a.n > 0 /\ b.n > 0
    THEN IF num = 1 THEN <<a>>
         ELSE [i \in 1..num |-> F(a.n * Pow(Ratio(a.n, b.n, num), i - 1))]
    ELSE [i \in 1..num |-> IF i = num /\ num > 1 THEN Pow10Log10(b) ELSE NaN]

GenerateScales ==
    /\ pc = "scales"
    /\ IF num_scales < 0
       THEN Fail(Raise("ValueError", "np.linspace: negative num")) /\ UNCHANGED box_sizes
       ELSE /\ box_sizes' = LogSpace(min_box_size, max_box_size, num_scales)
            /\ pc' = "count"
            /\ UNCHANGED error
    /\ UNCHANGED <<args, prev, tasks, outside, max_box_size, lat_arr, lon_arr, lat_range, lon_range,
                   counts, box_sizes_valid, counts_valid, warnings, fit, results, call>>

-----------------------------------------------------------------------------
(* box_counting, lines 197-201: one get_box_counts call per scale, in order  *)

\* np.arange raises inside get_box_counts when the box size is NaN (the length
\* cannot be computed) or 0
ArangeRaises(b) == b.k # "fin" \/ b.n <= 0

CountScale ==
    /\ pc = "count"
    /\ Len(counts) < Len(box_sizes)
    /\ LET box_size == box_sizes[Len(counts) + 1]
       IN  IF ArangeRaises(box_size)
           THEN Fail(Raise("ValueError", "np.arange in get_box_counts"))
                /\ UNCHANGED counts
           ELSE /\ counts' = Append(counts, GetBoxCounts(lat_arr, lon_arr, box_size.n))
                /\ UNCHANGED <<pc, error>>
    /\ UNCHANGED <<args, prev, tasks, outside, max_box_size, lat_arr, lon_arr, lat_range, lon_range,
                   box_sizes, box_sizes_valid, counts_valid, warnings, fit, results, call>>

-----------------------------------------------------------------------------
(* box_counting, lines 203-209: the zero-count filter and the warning        *)

\* the selected elements in reverse order
RECURSIVE MaskedReversed(_, _, _)
MaskedReversed(a, keep, i) ==
    IF i > Len(a) THEN <<>>
    ELSE MaskedReversed(a, keep, i + 1) \o (IF keep[i] THEN <<a[i]>> ELSE <<>>)

\* a[mask]: the elements of a at the indices where keep holds, in order
RECURSIVE Masked(_, _, _)
Masked(a, keep, i) ==
    IF i > Len(a) THEN <<>>
    ELSE (IF keep[i] THEN <<a[i]>> ELSE <<>>) \o Masked(a, keep, i + 1)

\* line 205: fewer valid scales than this warns
MinValidScales == 3

Filter ==
    /\ pc = "count"
    /\ Len(counts) = Len(box_sizes)
    /\ LET valid_mask == [i \in 1..Len(counts) |-> counts[i] > 0]
       IN  /\ warnings' =
                IF Cardinality({i \in DOMAIN valid_mask : valid_mask[i]}) < MinValidScales
                THEN Append(warnings, "Too few valid box sizes")
                ELSE warnings
           /\ box_sizes_valid' = Masked(box_sizes, valid_mask, 1)
           /\ counts_valid' = Masked(counts, valid_mask, 1)
    /\ pc' = "fit"
    /\ UNCHANGED <<args, prev, tasks, outside, max_box_size, lat_arr, lon_arr, lat_range, lon_range,
                   box_sizes, counts, fit, results, error, call>>

-----------------------------------------------------------------------------
(* calculate_fractal_dimension, lines 104-115                                *)

\* np.log10 of the integers 1..16 in hundredths (fixed point); the table keeps
\* log10(a * b) = log10(a) + log10(b), so an exact power law stays exact
Log10Table ==
    <<0, 30, 48, 60, 70, 78, 85, 90, 96, 100, 104, 108, 111, 115, 118, 120>>

LogScale == 100

\* product of two rationals, reduced before multiplying
Mul(a, b) ==
    LET g1 == Gcd(AbsInt(a.n), b.d)
        g2 == Gcd(AbsInt(b.n), a.d)
    IN  Q((a.n \div g1) * (b.n \div g2), (a.d \div g2) * (b.d \div g1))

RECURSIVE SumSeq(_, _)
SumSeq(a, i) == IF i > Len(a) THEN 0 ELSE a[i] + SumSeq(a, i + 1)

\* linregress without the guard for zero variance: r is 0/0
LinRegressNoVarianceGuard(x, y) ==
    LET n == Len(x)
        sx == SumSeq(x, 1)
        sy == SumSeq(y, 1)
        ssxm == n * SumSeq([i \in 1..n |-> x[i] * x[i]], 1) - sx * sx
        ssym == n * SumSeq([i \in 1..n |-> y[i] * y[i]], 1) - sy * sy
        ssxym == n * SumSeq([i \in 1..n |-> x[i] * y[i]], 1) - sx * sy
        r2 == IF ssxm = 0 \/ ssym = 0 THEN NaN
              ELSE Mul(Q(ssxym, ssxm), Q(ssxym, ssym))
    IN  IF n = 0
        THEN [raised |-> Raise("ValueError", "linregress: empty input")]
        ELSE IF ssxm = 0
        THEN [raised |-> NoError, slope |-> NaN, intercept |-> NaN,
              r_squared |-> r2, stderr_sq |-> NaN]
        ELSE [raised |-> NoError,
              slope |-> Q(ssxym, ssxm),
              intercept |-> Q(sy * ssxm - ssxym * sx, n * ssxm * LogScale),
              r_squared |-> r2,
              stderr_sq |-> IF n = 2 \/ r2.k # "fin" THEN r2
                            ELSE Mul(Q(r2.d - r2.n, r2.d),
                                     Q(ssym, ssxm * (n - 2)))]

\* scipy.stats.linregress(x, y) on fixed-point sequences.  Empty input raises;
\* with zero variance in x (one observation) the slope is 0/0 = NaN; r is 0
\* when either variance is 0; the standard error is 0 for two observations and
\* sqrt((1 - r^2) * ssym / ssxm / (n - 2)) otherwise, kept as its square.
LinRegress(x, y) ==
    LET n == Len(x)
        sx == SumSeq(x, 1)
        sy == SumSeq(y, 1)
        ssxm == n * SumSeq([i \in 1..n |-> x[i] * x[i]], 1) - sx * sx
        ssym == n * SumSeq([i \in 1..n |-> y[i] * y[i]], 1) - sy * sy
        ssxym == n * SumSeq([i \in 1..n |-> x[i] * y[i]], 1) - sx * sy
        r2 == IF ssxm = 0 \/ ssym = 0 THEN F(0)
              ELSE Mul(Q(ssxym, ssxm), Q(ssxym, ssym))
    IN  IF n = 0
        THEN [raised |-> Raise("ValueError", "linregress: empty input")]
        ELSE IF ssxm = 0
        THEN [raised |-> NoError, slope |-> NaN, intercept |-> NaN,
              r_squared |-> r2, stderr_sq |-> NaN]
        ELSE [raised |-> NoError,
              slope |-> Q(ssxym, ssxm),
              intercept |-> Q(sy * ssxm - ssxym * sx, n * ssxm * LogScale),
              r_squared |-> r2,
              stderr_sq |-> IF n = 2 THEN F(0)
                            ELSE Mul(Q(r2.d - r2.n, r2.d),
                                     Q(ssym, ssxm * (n - 2)))]

Neg(x) == IF x.k = "nan" THEN x ELSE [x EXCEPT !.n = -x.n]

\* calculate_fractal_dimension(box_sizes, counts): box sizes are floats, counts
\* are integers > 0
CalculateFractalDimension(sizes, cnts) ==
    LET log_r == [i \in 1..Len(sizes) |-> Log10Table[sizes[i].n]]
        log_N == [i \in 1..Len(cnts) |-> Log10Table[cnts[i]]]
        reg == LinRegress(log_r, log_N)
    IN  IF reg.raised # NoError
        THEN [raised |-> reg.raised]
        ELSE [raised |-> NoError,
              D |-> Neg(reg.slope),
              r_squared |-> reg.r_squared,
              std_err_sq |-> reg.stderr_sq,
              intercept |-> reg.intercept]

Fit ==
    /\ pc = "fit"
    /\ LET r == CalculateFractalDimension(box_sizes_valid, counts_valid)
       IN  IF r.raised # NoError
           THEN Fail(r.raised) /\ UNCHANGED fit
           ELSE /\ fit' = [D |-> r.D, r_squared |-> r.r_squared,
                           std_err_sq |-> r.std_err_sq, intercept |-> r.intercept]
                /\ pc' = "assemble"
                /\ UNCHANGED error
    /\ UNCHANGED <<args, prev, tasks, outside, max_box_size, lat_arr, lon_arr, lat_range, lon_range,
                   box_sizes, counts, box_sizes_valid, counts_valid, warnings,
                   results, call>>

-----------------------------------------------------------------------------
(* box_counting, lines 214-233: the returned dictionary.  The value under    *)
(* std_error is kept as its square, like std_err of the fit.                 *)

\* the dictionary with n_points taken from the scales, not the points
AssembleScaleCount ==
    /\ pc = "assemble"
    /\ LET base == [D |-> fit.D,
                    r_squared |-> fit.r_squared,
                    std_error |-> fit.std_err_sq,
                    n_points |-> Len(box_sizes),
                    spatial_extent |-> [lat_range |-> lat_range, lon_range |-> lon_range]]
       IN  results' = IF return_details
                      THEN base @@ [box_sizes |-> box_sizes_valid,
                                    counts |-> counts_valid,
                                    intercept |-> fit.intercept]
                      ELSE base
    /\ pc' = "done"
    /\ UNCHANGED <<args, prev, tasks, outside, max_box_size, lat_arr, lon_arr, lat_range, lon_range,
                   box_sizes, counts, box_sizes_valid, counts_valid, warnings,
                   fit, error, call>>

\* the dictionary with the per-scale detail whatever return_details is
AssembleAlwaysDetails ==
    /\ pc = "assemble"
    /\ results' = [D |-> fit.D,
                   r_squared |-> fit.r_squared,
                   std_error |-> fit.std_err_sq,
                   n_points |-> Len(lat_arr),
                   spatial_extent |-> [lat_range |-> lat_range, lon_range |-> lon_range],
                   box_sizes |-> box_sizes_valid,
                   counts |-> counts_valid,
                   intercept |-> fit.intercept]
    /\ pc' = "done"
    /\ UNCHANGED <<args, prev, tasks, outside, max_box_size, lat_arr, lon_arr, lat_range, lon_range,
                   box_sizes, counts, box_sizes_valid, counts_valid, warnings,
                   fit, error, call>>

Assemble ==
    /\ pc = "assemble"
    /\ LET base == [D |-> fit.D,
                    r_squared |-> fit.r_squared,
                    std_error |-> fit.std_err_sq,
                    n_points |-> Len(lat_arr),
                    spatial_extent |-> [lat_range |-> lat_range, lon_range |-> lon_range]]
       IN  results' = IF return_details
                      THEN base @@ [box_sizes |-> box_sizes_valid,
                                    counts |-> counts_valid,
                                    intercept |-> fit.intercept]
                      ELSE base
    /\ pc' = "done"
    /\ UNCHANGED <<args, prev, tasks, outside, max_box_size, lat_arr, lon_arr, lat_range, lon_range,
                   box_sizes, counts, box_sizes_valid, counts_valid, warnings,
                   fit, error, call>>

Next ==
    \/ Validate
    \/ Extent
    \/ CheckBounds
    \/ GenerateScales
    \/ CountScale
    \/ Filter
    \/ Fit
    \/ Assemble

-----------------------------------------------------------------------------
(* Spec: one box_counting call on a point set over a coarse lattice, with    *)
(* every combination of scale parameters.  Point sets are enumerated in one  *)
(* order (non-decreasing point number); three malformed inputs are added.    *)

\* most points of a point set
MaxPoints == 2
\* largest num_scales
MaxScales == 3

PipeCoords == <<0, 8, 16>>
MinBoxSizes == {F(-1), F(0), F(1), F(2), F(4)}
MaxBoxSizes == {None, F(0), F(1), F(2), F(4)}

NonDecreasing(s) == \A i \in 1..(Len(s) - 1) : s[i] <= s[i + 1]

MalformedInputs ==
    {<< <<>>, <<>> >>, << <<F(0)>>, <<F(0), F(8)>> >>, << <<F(95)>>, <<F(0)>> >>}

\* the scales of the call are integers: lattice coordinates make the default
\* max_box_size an integer, and the ratio of the scales is an integer
ScalesModelled ==
    LET hi == IF max_box_size = None
              THEN DefaultMax(Sub(F(ArrayMax(latitudes)), F(ArrayMin(latitudes))),
                              Sub(F(ArrayMax(longitudes)), F(ArrayMin(longitudes))))
              ELSE max_box_size
    IN  IF ValidateData(latitudes, longitudes) # NoError THEN TRUE
        ELSE IF num_scales <= 2 \/ min_box_size.n <= 0 \/ hi.n <= min_box_size.n
        THEN TRUE
        ELSE HasRatio(min_box_size.n, hi.n, num_scales)

Init ==
    /\ \/ \E n \in 1..MaxPoints :
            \E s \in [1..n -> 0..(Len(PipeCoords) * Len(PipeCoords) - 1)] :
               /\ NonDecreasing(s)
               /\ latitudes = [i \in 1..n |-> F(PipeCoords[(s[i] \div Len(PipeCoords)) + 1])]
               /\ longitudes = [i \in 1..n |-> F(PipeCoords[(s[i] % Len(PipeCoords)) + 1])]
       \/ \E m \in MalformedInputs : latitudes = m[1] /\ longitudes = m[2]
    /\ min_box_size \in MinBoxSizes
    /\ max_box_size \in MaxBoxSizes
    /\ num_scales \in -1..MaxScales
    /\ return_details \in BOOLEAN
    /\ ScalesModelled
    /\ LocalsAtEntry
    /\ FirstCall
    /\ tasks = NoTasks
    /\ OutsideIdle
    /\ call = NoCall

Spec == Init /\ [][Next]_vars

-----------------------------------------------------------------------------
(* SpecExact: box_counting with box sizes {1.0, 2.0} on points at the        *)
(* corners of the unit square                                                *)

\* most points of a point set
MaxExactPoints == 4

InitExact ==
    /\ \E n \in 1..MaxExactPoints :
         /\ latitudes \in [1..n -> {F(0), F(1)}]
         /\ longitudes \in [1..n -> {F(0), F(1)}]
    /\ min_box_size = F(1)
    /\ max_box_size = F(2)
    /\ num_scales = 2
    /\ return_details \in BOOLEAN
    /\ LocalsAtEntry
    /\ FirstCall
    /\ tasks = NoTasks
    /\ OutsideIdle
    /\ call = NoCall

SpecExact == InitExact /\ [][Next]_vars

-----------------------------------------------------------------------------
(* SpecValidate: validate_data called directly and through box_counting on  *)
(* coordinate sequences that may be empty, unequal, non-finite, out of range *)

LatValues == {F(-91), F(-90), F(90), F(91), NaN, PosInf}
LonValues == {F(-181), F(-180), F(91), F(180), F(181), NegInf}

InitValidate ==
    /\ latitudes \in SeqsOf(LatValues, 0, MaxValLen)
    /\ longitudes \in SeqsOf(LonValues, 0, MaxValLen)
    /\ min_box_size = F(1)
    /\ max_box_size = F(2)
    /\ num_scales = 2
    /\ return_details = FALSE
    /\ LocalsAtEntry
    /\ FirstCall
    /\ tasks = NoTasks
    /\ OutsideIdle
    /\ call = NoCall

\* a direct call validate_data(latitudes, longitudes)
ValidateDataCall ==
    /\ call.fn = "none"
    /\ call' = [fn |-> "validate_data", raised |-> ValidateData(latitudes, longitudes)]
    /\ UNCHANGED <<args, prev, tasks, outside, max_box_size, pc, lat_arr, lon_arr, locals>>

NextValidate == ValidateDataCall \/ Validate

SpecValidate == InitValidate /\ [][NextValidate]_vars

-----------------------------------------------------------------------------
(* SpecGrid: get_box_counts called directly on valid point sets.  The arrays *)
(* are read only through min, max and histogram2d, so the points are         *)
(* enumerated in one order (non-decreasing point number).                    *)

GridSide == MaxGridCoord + 1

\* point number p stands for (p \div GridSide, p % GridSide)
InitGrid ==
    /\ \E n \in 1..MaxGridPoints :
         \E s \in [1..n -> 0..(GridSide * GridSide - 1)] :
            /\ NonDecreasing(s)
            /\ latitudes = [i \in 1..n |-> F(s[i] \div GridSide)]
            /\ longitudes = [i \in 1..n |-> F(s[i] % GridSide)]
    /\ min_box_size = F(1)
    /\ max_box_size = F(2)
    /\ num_scales = 2
    /\ return_details = FALSE
    /\ LocalsAtEntry
    /\ FirstCall
    /\ tasks = NoTasks
    /\ OutsideIdle
    /\ call = NoCall

\* a direct call get_box_counts(latitudes, longitudes, box_size)
GetBoxCountsCall ==
    /\ call.fn = "none"
    /\ \E b \in 1..MaxGridBox :
         call' = [fn |-> "get_box_counts"]
                    @@ GetBoxCountsRun(latitudes, longitudes, b)
    /\ latitudes' = ArraysAfterGetBoxCounts(latitudes, longitudes)[1]
    /\ longitudes' = ArraysAfterGetBoxCounts(latitudes, longitudes)[2]
    /\ UNCHANGED <<min_box_size, num_scales, return_details, max_box_size_arg,
                   tasks, outside,
                   prev, max_box_size, pc, lat_arr, lon_arr, locals>>

NextGrid == GetBoxCountsCall

SpecGrid == InitGrid /\ [][NextGrid]_vars

-----------------------------------------------------------------------------
(* Claims about get_box_counts, under SpecGrid *)

Called == call.fn = "get_box_counts"
NPoints == Len(latitudes)
LatExtent == ArrayMax(latitudes) - ArrayMin(latitudes)
LonExtent == ArrayMax(longitudes) - ArrayMin(longitudes)
AllIdentical ==
    \A i \in DOMAIN latitudes :
        latitudes[i] = latitudes[1] /\ longitudes[i] = longitudes[1]

RECURSIVE SumOver(_, _)
SumOver(f, S) ==
    IF S = {} THEN 0
    ELSE LET c == CHOOSE x \in S : TRUE IN f[c] + SumOver(f, S \ {c})

\* the half-open (last one closed) cell [edges[j], edges[j+1]) holds x
InCell(edges, j, x) ==
    /\ edges[j] <= x
    /\ IF j = Len(edges) - 1 THEN x <= edges[j + 1] ELSE x < edges[j + 1]

\* C2: a single point, or any number of identical points, gives exactly one
\* occupied cell for every box size.
C2_IdenticalPointsOneCell == (Called /\ AllIdentical) => call.ret = 1

\* C3: a box size strictly larger than the latitude range and the longitude
\* range gives exactly one occupied cell.
C3_BoxLargerThanExtentOneCell ==
    (Called /\ call.box_size > LatExtent /\ call.box_size > LonExtent) => call.ret = 1

\* the part of C3 the code keeps: point sets with a positive range on both
\* axes
C3_WhenBothRangesPositive ==
    (Called /\ call.box_size > LatExtent /\ call.box_size > LonExtent
        /\ LatExtent > 0 /\ LonExtent > 0) => call.ret = 1

C6_FullCoverage ==
    Called =>
        /\ SumOver(call.hist, DOMAIN call.hist) = NPoints
        /\ \A i \in DOMAIN latitudes :
              Cardinality({c \in DOMAIN call.hist :
                  /\ InCell(call.lat_bins, c[1], latitudes[i].n)
                  /\ InCell(call.lon_bins, c[2], longitudes[i].n)}) = 1

\* C6 on the point sets with a positive range on both axes
C6_WhenBothRangesPositive == (LatExtent > 0 /\ LonExtent > 0) => C6_FullCoverage

-----------------------------------------------------------------------------
(* Claims about validate_data, under SpecValidate *)

\* the invariant of a point set, stated on the values
InRange(x, limit) == x.k = "fin" /\ -(limit * x.d) <= x.n /\ x.n <= limit * x.d

WellFormed ==
    /\ Len(latitudes) >= 1
    /\ Len(longitudes) >= 1
    /\ Len(latitudes) = Len(longitudes)
    /\ \A i \in DOMAIN latitudes : InRange(latitudes[i], 90)
    /\ \A i \in DOMAIN longitudes : InRange(longitudes[i], 180)

ValidationKinds ==
    <<"empty", "length mismatch", "non-finite", "latitude range", "longitude range">>

\* whether the input violates the invariant of that kind
Violates(kind) ==
    CASE kind = "empty" -> Len(latitudes) = 0 \/ Len(longitudes) = 0
      [] kind = "length mismatch" -> Len(latitudes) # Len(longitudes)
      [] kind = "non-finite" ->
            \E a \in {latitudes, longitudes} : \E i \in DOMAIN a : a[i].k # "fin"
      [] kind = "latitude range" ->
            \E i \in DOMAIN latitudes : ~InRange(latitudes[i], 90)
      [] kind = "longitude range" ->
            \E i \in DOMAIN longitudes : ~InRange(longitudes[i], 180)

Validated == call.fn = "validate_data"

\* C7: validate_data accepts exactly the well-formed inputs (non-empty, equal
\* length, finite, |lat| <= 90, |lon| <= 180), and box_counting rejects
\* exactly the inputs validate_data rejects.
C7_AcceptsIffWellFormed ==
    /\ Validated => ((call.raised = NoError) <=> WellFormed)
    /\ pc # "validate" => ((pc # "failed") <=> WellFormed)
    /\ (Validated /\ pc # "validate") =>
          ((pc = "failed") <=> (call.raised # NoError))

\* both boundary values are accepted, by the direct call and by box_counting
C7_Witness ==
    /\ Validated
    /\ call.raised = NoError
    /\ pc = "extent"
    /\ latitudes = <<F(-90), F(90)>>
    /\ longitudes = <<F(180), F(-180)>>

\* C8: the kind the error reports is an invariant the input violates, and the
\* first such in the order empty, length mismatch, non-finite, latitude
\* range, longitude range; a well-formed input reports nothing.
C8_ReportsFirstViolated ==
    Validated =>
        IF \E j \in DOMAIN ValidationKinds : Violates(ValidationKinds[j])
        THEN \E j \in DOMAIN ValidationKinds :
                /\ call.raised.where = ValidationKinds[j]
                /\ Violates(ValidationKinds[j])
                /\ \A h \in 1..(j - 1) : ~Violates(ValidationKinds[h])
        ELSE call.raised = NoError

\* one empty and one non-empty sequence: reported as empty, not as a mismatch
C8_Witness ==
    /\ Validated
    /\ Len(latitudes) = 0
    /\ Len(longitudes) = 1
    /\ call.raised.where = "empty"

-----------------------------------------------------------------------------
(* Claims about box_counting, under Spec and SpecExact *)

CoordinatesValid == ValidateData(latitudes, longitudes) = NoError

\* every scale has been counted
AllCounted == Len(box_sizes) >= 1 /\ Len(counts) = Len(box_sizes)

ExactGrid ==
    /\ latitudes = <<F(0), F(0), F(1), F(1)>>
    /\ longitudes = <<F(0), F(1), F(0), F(1)>>

\* C1: for the points (0,0), (0,1), (1,0), (1,1) the counts at box sizes 1.0
\* and 2.0 are 4 and 1, and the fit of the two observations gives D = 2.0
\* and r_squared = 1.0.
C1_ExactGridCase ==
    ExactGrid =>
        /\ AllCounted => counts = <<4, 1>>
        /\ pc = "done" => (results.D = F(2) /\ results.r_squared = F(1))

\* the fit of C1 on the counts the claim expects
C1_FitOfClaimedCounts ==
    LET r == CalculateFractalDimension(<<F(1), F(2)>>, <<4, 1>>)
    IN  pc = "done" => (r.D = F(2) /\ r.r_squared = F(1))

\* C4: for an accepted scale range the counts at min_box_size and at
\* max_box_size are at least 1 and at most n_points, and no count at any
\* scale exceeds n_points.
C4_CountsWithinBounds ==
    /\ \A i \in DOMAIN counts : counts[i] <= Len(lat_arr)
    /\ AllCounted =>
          /\ counts[1] >= 1
          /\ counts[Len(counts)] >= 1

\* the upper bound of C4 alone
C4_UpperBoundOnly == \A i \in DOMAIN counts : counts[i] <= Len(lat_arr)

\* the exception class validate_data raises
ValidationErrorClass == ValidateData(<<>>, <<>>).cls

\* the call is past the check of line 187, so max_box_size is the given or
\* the derived one
PastCheck == CoordinatesValid /\ pc \notin {"validate", "extent", "check"}

\* C9: whenever min_box_size >= max_box_size (given or derived) the call fails
\* with the parameter error, of a kind a caller can tell from the validation
\* failure.
C9_MinGeMaxIsParameterError ==
    (PastCheck /\ Ge(min_box_size, max_box_size)) =>
        /\ pc = "failed"
        /\ error.where = "min_box_size >= max_box_size"
        /\ error.cls # ValidationErrorClass

\* the failure of C9 without the kind
C9_FailsWhenMinGeMax ==
    (PastCheck /\ Ge(min_box_size, max_box_size)) =>
        (pc = "failed" /\ error.where = "min_box_size >= max_box_size")

NonPositiveConfig ==
    \/ min_box_size.n <= 0
    \/ (max_box_size # None /\ max_box_size.n <= 0)
    \/ num_scales < 1

\* the raise statements that reject the parameters of the call
ParameterErrorSites == {"min_box_size >= max_box_size", "np.linspace: negative num"}

\* C10: with valid coordinates and a non-positive scale bound or
\* num_scales < 1 the call fails with a parameter error before any occupancy
\* is counted, and never returns a result.
C10_RejectedBeforeCounting ==
    (CoordinatesValid /\ NonPositiveConfig) =>
        /\ pc \notin {"fit", "assemble", "done"}
        /\ counts = <<>>
        /\ pc = "failed" => error.where \in ParameterErrorSites

\* the part of C10 that holds: no result is returned
C10_NeverReturns ==
    (CoordinatesValid /\ NonPositiveConfig) => (pc # "done" /\ counts = <<>>)

-----------------------------------------------------------------------------
(* Claims about the order of the steps and the scale bounds, under Spec *)

\* the validation failures
ValidationErrors ==
    {Raise("ValueError", ValidationKinds[i]) : i \in DOMAIN ValidationKinds}

\* C11: with invalid coordinates the call fails with the validation error
\* whatever min_box_size, max_box_size and num_scales are; no extent, scale,
\* count, fit or result is produced.
C11_ValidationFirst ==
    ~WellFormed =>
        /\ pc \in {"validate", "failed"}
        /\ pc = "failed" => error \in ValidationErrors
        /\ max_box_size = max_box_size_arg
        /\ lat_range = None /\ lon_range = None
        /\ box_sizes = <<>> /\ counts = <<>>
        /\ box_sizes_valid = <<>> /\ counts_valid = <<>>
        /\ warnings = <<>>
        /\ fit = NoFit
        /\ results = NoResults

\* a malformed input with min_box_size >= max_box_size fails in the validation
C11_Witness ==
    /\ pc = "failed"
    /\ Len(latitudes) # Len(longitudes)
    /\ max_box_size # None
    /\ Ge(min_box_size, max_box_size)
    /\ num_scales < 1
    /\ error = Raise("ValueError", "length mismatch")

\* a quarter of the smaller of the two ranges of the input
QuarterOfSmallerRange ==
    Q(IF LatExtent <= LonExtent THEN LatExtent ELSE LonExtent, 4)

\* C12: past line 184 max_box_size is min(lat_range, lon_range) / 4 of the
\* input when the caller omitted it, and the caller's value otherwise.
C12_DefaultMaxBoxSize ==
    (WellFormed /\ pc \notin {"validate", "extent"}) =>
        max_box_size = IF max_box_size_arg = None
                       THEN QuarterOfSmallerRange
                       ELSE max_box_size_arg

\* max_box_size omitted, latitude range 8 and longitude range 16: the scales
\* end at 2
C12_Witness ==
    /\ pc = "count"
    /\ max_box_size_arg = None
    /\ LatExtent = 8 /\ LonExtent = 16
    /\ max_box_size = F(2)
    /\ num_scales = 2
    /\ box_sizes = <<F(1), F(2)>>

-----------------------------------------------------------------------------
(* Claims about the scale series and the filter, under Spec *)

\* np.logspace has returned
ScalesGenerated ==
    \/ pc \in {"count", "fit", "assemble", "done"}
    \/ pc = "failed" /\ error.where = "linregress: empty input"

\* valid coordinates, 0 < min_box_size < max_box_size, num_scales >= 1
AcceptedConfig ==
    /\ WellFormed
    /\ min_box_size.n > 0
    /\ num_scales >= 1
    /\ ScalesGenerated

StrictlyIncreasing(s) == \A i \in 1..(Len(s) - 1) : ~Ge(s[i], s[i + 1])

\* C13 as stated: N values, strictly increasing, from min_box_size to
\* max_box_size, for every N >= 1.
C13_ScaleSeriesSpansBounds ==
    AcceptedConfig =>
        /\ Len(box_sizes) = num_scales
        /\ StrictlyIncreasing(box_sizes)
        /\ box_sizes[1] = min_box_size
        /\ box_sizes[num_scales] = max_box_size

\* C13: the series has exactly N values, is strictly increasing and starts at
\* min_box_size; it ends at max_box_size for N >= 2 and is the single value
\* min_box_size for N = 1.
C13_ScaleSeries ==
    AcceptedConfig =>
        /\ Len(box_sizes) = num_scales
        /\ StrictlyIncreasing(box_sizes)
        /\ box_sizes[1] = min_box_size
        /\ num_scales >= 2 => box_sizes[num_scales] = max_box_size
        /\ num_scales = 1 => box_sizes = <<min_box_size>>

C13_Witness ==
    /\ pc = "count"
    /\ num_scales = 3
    /\ box_sizes = <<F(1), F(2), F(4)>>
    /\ min_box_size = F(1)
    /\ max_box_size = F(4)

\* the filter of lines 204-209 has run
Filtered ==
    \/ pc \in {"fit", "assemble", "done"}
    \/ pc = "failed" /\ error.where = "linregress: empty input"

LowConfidenceWarned == \E i \in DOMAIN warnings : warnings[i] = "Too few valid box sizes"

\* C14: with fewer than 3 surviving scales the call warns and does not fail.
C14_FewSurvivorsWarnAndReturn ==
    (AcceptedConfig /\ Filtered /\ Len(counts_valid) < 3) =>
        /\ LowConfidenceWarned
        /\ pc # "failed"

\* C14 with at least one surviving scale
C14_WhenSomeSurvive ==
    (AcceptedConfig /\ Filtered /\ Len(counts_valid) \in {1, 2}) =>
        /\ LowConfidenceWarned
        /\ pc # "failed"

\* the warning alone: emitted whenever fewer than 3 scales survive
C14_WarningOnly ==
    (Filtered /\ Len(counts_valid) < 3) => LowConfidenceWarned

\* C15: one point with explicit valid scales has count 1 at every scale, the
\* call does not fail, D is not NaN and the degenerate fit is reported.
C15_SinglePoint ==
    (AcceptedConfig /\ NPoints = 1 /\ max_box_size_arg # None) =>
        /\ \A i \in DOMAIN counts : counts[i] = 1
        /\ pc # "failed"
        /\ pc = "done" =>
              /\ results.D.k # "nan"
              /\ results.r_squared = F(0) \/ LowConfidenceWarned

-----------------------------------------------------------------------------
(* SpecFit: calculate_fractal_dimension called directly on a series of       *)
(* pairwise distinct box sizes, in any order, with one positive count each   *)

\* longest series handed to calculate_fractal_dimension
MaxFitLen == 3
\* largest count of a scale
MaxFitCount == 3

FitSizes == {F(1), F(2), F(4), F(8)}

InitFit ==
    /\ \E n \in 0..MaxFitLen :
         /\ box_sizes \in {s \in [1..n -> FitSizes] :
                             \A i, j \in 1..n : s[i] = s[j] => i = j}
         /\ counts \in [1..n -> 1..MaxFitCount]
    /\ latitudes = <<>>
    /\ longitudes = <<>>
    /\ min_box_size = F(1)
    /\ max_box_size = F(8)
    /\ num_scales = MaxFitLen
    /\ return_details = FALSE
    /\ pc = "validate"
    /\ lat_arr = <<>>
    /\ lon_arr = <<>>
    /\ lat_range = None
    /\ lon_range = None
    /\ box_sizes_valid = <<>>
    /\ counts_valid = <<>>
    /\ warnings = <<>>
    /\ fit = NoFit
    /\ results = NoResults
    /\ error = NoError
    /\ FirstCall
    /\ tasks = NoTasks
    /\ OutsideIdle
    /\ call = NoCall

\* a direct call calculate_fractal_dimension(box_sizes, counts)
CalculateFractalDimensionCall ==
    /\ call.fn = "none"
    /\ call' = [fn |-> "calculate_fractal_dimension"]
                  @@ CalculateFractalDimension(box_sizes, counts)
    /\ UNCHANGED <<args, prev, tasks, outside, max_box_size, pc, lat_arr, lon_arr, locals>>

NextFit == CalculateFractalDimensionCall

SpecFit == InitFit /\ [][NextFit]_vars

-----------------------------------------------------------------------------
(* Claims about calculate_fractal_dimension, under SpecFit *)

FitCalled == call.fn = "calculate_fractal_dimension"

AllCountsEqual == \A i \in DOMAIN counts : counts[i] = counts[1]

\* C16: at least two distinct box sizes with equal positive counts give
\* D = 0 and r_squared = 0, not NaN and not an error.
C16_EqualCountsGiveZero ==
    (FitCalled /\ Len(box_sizes) >= 2 /\ AllCountsEqual) =>
        /\ call.raised = NoError
        /\ call.D = F(0)
        /\ call.r_squared = F(0)

C16_Witness ==
    /\ FitCalled
    /\ box_sizes = <<F(4), F(1), F(2)>>
    /\ counts = <<2, 2, 2>>
    /\ call.raised = NoError
    /\ call.D = F(0)
    /\ call.std_err_sq = F(0)

-----------------------------------------------------------------------------
(* Claims about the returned dictionary, under Spec *)

Returned == pc = "done"

\* C18: n_points is the number of input points and spatial_extent holds max
\* minus min of the input latitudes and longitudes, both >= 0, whatever the
\* scale parameters are.
C18_PointsAndExtent ==
    Returned =>
        /\ results.n_points = NPoints
        /\ results.spatial_extent.lat_range = F(LatExtent)
        /\ results.spatial_extent.lon_range = F(LonExtent)
        /\ Ge(results.spatial_extent.lat_range, F(0))
        /\ Ge(results.spatial_extent.lon_range, F(0))

C18_Witness ==
    /\ Returned
    /\ latitudes = <<F(0), F(8)>>
    /\ longitudes = <<F(16), F(0)>>
    /\ num_scales = 3
    /\ results.n_points = 2
    /\ results.spatial_extent = [lat_range |-> F(8), lon_range |-> F(16)]

-----------------------------------------------------------------------------
(* SpecTwice: the caller makes the same box_counting call a second time, with *)
(* return_details chosen again.  Points lie on a lattice on which the counts  *)
(* differ between scales.                                                     *)

\* most points of a point set
MaxTwicePoints == 2

TwiceCoords == <<0, 4, 8>>
TwiceMinBoxSizes == {F(1), F(2)}
TwiceMaxBoxSizes == {None, F(2), F(4)}
TwiceScales == {1, 2, 3}

InitTwice ==
    /\ \/ \E n \in 1..MaxTwicePoints :
            \E s \in [1..n -> 0..(Len(TwiceCoords) * Len(TwiceCoords) - 1)] :
               /\ NonDecreasing(s)
               /\ latitudes = [i \in 1..n |-> F(TwiceCoords[(s[i] \div Len(TwiceCoords)) + 1])]
               /\ longitudes = [i \in 1..n |-> F(TwiceCoords[(s[i] % Len(TwiceCoords)) + 1])]
       \/ \E m \in MalformedInputs : latitudes = m[1] /\ longitudes = m[2]
    /\ min_box_size \in TwiceMinBoxSizes
    /\ max_box_size \in TwiceMaxBoxSizes
    /\ num_scales \in TwiceScales
    /\ return_details \in BOOLEAN
    /\ ScalesModelled
    /\ LocalsAtEntry
    /\ FirstCall
    /\ tasks = NoTasks
    /\ OutsideIdle
    /\ call = NoCall

\* the locals of a call that keeps its warnings from the call before
FrameKeepingWarnings ==
    /\ pc' = "validate"
    /\ lat_arr' = <<>>
    /\ lon_arr' = <<>>
    /\ lat_range' = None
    /\ lon_range' = None
    /\ box_sizes' = <<>>
    /\ counts' = <<>>
    /\ box_sizes_valid' = <<>>
    /\ counts_valid' = <<>>
    /\ warnings' = warnings
    /\ fit' = NoFit
    /\ results' = NoResults
    /\ error' = NoError

\* every call of box_counting has a frame of its own: the locals start
\* unassigned and the warnings of the call are its own
FreshFrame ==
    /\ pc' = "validate"
    /\ lat_arr' = <<>>
    /\ lon_arr' = <<>>
    /\ lat_range' = None
    /\ lon_range' = None
    /\ box_sizes' = <<>>
    /\ counts' = <<>>
    /\ box_sizes_valid' = <<>>
    /\ counts_valid' = <<>>
    /\ warnings' = <<>>
    /\ fit' = NoFit
    /\ results' = NoResults
    /\ error' = NoError

\* the first call has ended; the caller keeps its outcome and calls again with
\* the same coordinates and scale parameters
CallAgain ==
    /\ pc \in {"done", "failed"}
    /\ prev = NoPrev
    /\ prev' = [fn |-> "box_counting", return_details |-> return_details,
                pc |-> pc, error |-> error, results |-> results,
                counts |-> counts, warnings |-> warnings]
    /\ return_details' \in BOOLEAN
    /\ max_box_size' = max_box_size_arg
    /\ FreshFrame
    /\ UNCHANGED <<latitudes, longitudes, min_box_size, num_scales, tasks, outside,
                   max_box_size_arg, call>>

NextTwice == Next \/ CallAgain

SpecTwice == InitTwice /\ [][NextTwice]_vars

-----------------------------------------------------------------------------
(* Claims about two calls with the same input, under SpecTwice *)

BaseKeys == {"D", "r_squared", "std_error", "n_points", "spatial_extent"}
DetailKeys == {"box_sizes", "counts", "intercept"}

\* the second call has ended
BothEnded == prev.fn = "box_counting" /\ pc \in {"done", "failed"}

\* C17: a result has the keys D, r_squared, std_error, n_points and
\* spatial_extent, and box_sizes, counts and intercept exactly when
\* return_details is true; the same call with return_details chosen otherwise
\* ends the same way with the same values under the five keys.
C17_ResultKeys ==
    /\ Returned =>
          DOMAIN results = BaseKeys \cup (IF return_details THEN DetailKeys ELSE {})
    /\ BothEnded =>
          /\ pc = prev.pc
          /\ Returned => \A k \in BaseKeys : results[k] = prev.results[k]

\* a call without and then with the detail: same fit, more keys
C17_Witness ==
    /\ BothEnded
    /\ Returned
    /\ ~prev.return_details
    /\ return_details
    /\ DOMAIN prev.results = BaseKeys
    /\ results.counts = <<2, 2, 1>>
    /\ results.D = prev.results.D
    /\ results.D # F(0)

-----------------------------------------------------------------------------
(* SpecFrame: box_counting and get_box_counts called on the caller's         *)
(* sequences, in any order of the points                                     *)

\* most points of a point set
MaxFramePoints == 2

FrameCoords == {F(0), F(4), F(8)}
FrameMaxBoxSizes == {None, F(4)}
FrameScales == {1, 3}

InitFrame ==
    /\ \E n \in 1..MaxFramePoints :
         /\ latitudes \in [1..n -> FrameCoords]
         /\ longitudes \in [1..n -> FrameCoords]
    /\ min_box_size = F(1)
    /\ max_box_size \in FrameMaxBoxSizes
    /\ num_scales \in FrameScales
    /\ return_details \in BOOLEAN
    /\ ScalesModelled
    /\ LocalsAtEntry
    /\ FirstCall
    /\ tasks = NoTasks
    /\ OutsideIdle
    /\ call = NoCall

NextFrame == Next \/ GetBoxCountsCall

SpecFrame == InitFrame /\ [][NextFrame]_vars

C20_WitnessFailed ==
    /\ call.fn = "get_box_counts"
    /\ pc = "failed"
    /\ latitudes = <<F(8), F(0)>>
    /\ longitudes = <<F(4), F(4)>>

-----------------------------------------------------------------------------
(* Claims about the filtered observations, under SpecTwice *)

ReturnedWithDetails == Returned /\ return_details

-----------------------------------------------------------------------------
(* SpecTasks: the counting loop of lines 198-201 with one task per scale,    *)
(* run in any order and joined before the filter and the fit                 *)

\* the scale a task counts when tasks write their result in the order they
\* finish
TaskScaleByArrival(i) == box_sizes[Cardinality(DOMAIN tasks) + 1]

\* the scale task i counts: the element i of box_sizes
TaskScale(i) == box_sizes[i]

\* one iteration of the comprehension of lines 198-201, for any scale not yet
\* counted
CountScaleTask ==
    /\ pc = "count"
    /\ \E i \in DOMAIN box_sizes \ DOMAIN tasks :
         IF ArangeRaises(TaskScale(i))
         THEN Fail(Raise("ValueError", "np.arange in get_box_counts"))
              /\ UNCHANGED tasks
         ELSE /\ tasks' = [j \in DOMAIN tasks \cup {i} |->
                             IF j = i
                             THEN GetBoxCounts(lat_arr, lon_arr, TaskScale(i).n)
                             ELSE tasks[j]]
              /\ UNCHANGED <<pc, error>>
    /\ UNCHANGED <<args, prev, outside, max_box_size, lat_arr, lon_arr, lat_range,
                   lon_range, box_sizes, counts, box_sizes_valid, counts_valid,
                   warnings, fit, results, call>>

\* line 198: np.array of the counts, once every scale is counted
JoinTasks ==
    /\ pc = "count"
    /\ Len(counts) < Len(box_sizes)
    /\ DOMAIN tasks = DOMAIN box_sizes
    /\ counts' = [i \in 1..Len(box_sizes) |-> tasks[i]]
    /\ UNCHANGED <<args, prev, tasks, outside, max_box_size, pc, lat_arr, lon_arr,
                   lat_range, lon_range, box_sizes, box_sizes_valid, counts_valid,
                   warnings, fit, results, error, call>>

NextTasks ==
    \/ Validate
    \/ Extent
    \/ CheckBounds
    \/ GenerateScales
    \/ CountScaleTask
    \/ JoinTasks
    \/ Filter
    \/ Fit
    \/ Assemble

SpecTasks == InitTwice /\ [][NextTasks]_vars

\* what the sequential loop of lines 198-201 produces
SequentialCounts ==
    [i \in 1..Len(box_sizes) |-> GetBoxCounts(latitudes, longitudes, box_sizes[i].n)]

C22_SequentialLoop ==
    /\ \A i \in DOMAIN counts :
          counts[i] = GetBoxCounts(latitudes, longitudes, box_sizes[i].n)
    /\ Filtered => counts = SequentialCounts

C22_WitnessJoined ==
    /\ Returned
    /\ counts = <<2, 2, 1>>
    /\ DOMAIN tasks = {1, 2, 3}

-----------------------------------------------------------------------------
(* SpecShift: get_box_counts called on a point set and again, with the same  *)
(* box size, on the point set shifted as a whole                             *)

\* most points of a point set
MaxShiftPoints == 2
\* largest coordinate (degrees) of a point before the shift
MaxShiftCoord == 3
\* largest shift (degrees) on an axis
MaxShift == 2

ShiftSide == MaxShiftCoord + 1

InitShift ==
    /\ \E n \in 1..MaxShiftPoints :
         \E s \in [1..n -> 0..(ShiftSide * ShiftSide - 1)] :
            /\ NonDecreasing(s)
            /\ latitudes = [i \in 1..n |-> F(s[i] \div ShiftSide)]
            /\ longitudes = [i \in 1..n |-> F(s[i] % ShiftSide)]
    /\ min_box_size = F(1)
    /\ max_box_size = F(2)
    /\ num_scales = 2
    /\ return_details = FALSE
    /\ LocalsAtEntry
    /\ FirstCall
    /\ tasks = NoTasks
    /\ OutsideIdle
    /\ call = NoCall

\* every element of a moved by d
Shifted(a, d) == [i \in DOMAIN a |-> F(a[i].n + d)]

\* the caller shifts all points by (dlat, dlon) and calls get_box_counts again
\* with the box size of the first call
ShiftAndCall ==
    /\ call.fn = "get_box_counts"
    /\ prev = NoPrev
    /\ \E dlat, dlon \in 0..MaxShift :
         /\ prev' = [fn |-> "get_box_counts", box_size |-> call.box_size,
                     ret |-> call.ret, dlat |-> dlat, dlon |-> dlon]
         /\ latitudes' = Shifted(latitudes, dlat)
         /\ longitudes' = Shifted(longitudes, dlon)
         /\ call' = [fn |-> "get_box_counts"]
                       @@ GetBoxCountsRun(Shifted(latitudes, dlat),
                                          Shifted(longitudes, dlon), call.box_size)
    /\ UNCHANGED <<min_box_size, num_scales, return_details, max_box_size_arg,
                   tasks, outside, max_box_size, pc, lat_arr, lon_arr, locals>>

NextShift == GetBoxCountsCall \/ ShiftAndCall

SpecShift == InitShift /\ [][NextShift]_vars

\* pairs of points on the lattice of SpecShift, and the point set of the call
ShiftPointSets ==
    {<< <<F(p[1]), F(q[1])>>, <<F(p[2]), F(q[2])>> >> :
        p \in (0..MaxShiftCoord) \X (0..MaxShiftCoord),
        q \in (0..MaxShiftCoord) \X (0..MaxShiftCoord)}
      \cup {<<latitudes, longitudes>>}

ShiftedCall == prev.fn = "get_box_counts" /\ call.fn = "get_box_counts"

-----------------------------------------------------------------------------
(* Claims about point sets with a zero range, under SpecFrame *)

ZeroRange == LatExtent = 0 \/ LonExtent = 0

C24_OnGrid == Called => ((call.ret = 0) <=> ZeroRange)

-----------------------------------------------------------------------------
(* Claims about the derived max_box_size, under Spec *)

SmallerExtent == IF LatExtent <= LonExtent THEN LatExtent ELSE LonExtent

\* max_box_size was omitted and the check of line 187 has been made
DerivedPastCheck ==
    /\ WellFormed
    /\ max_box_size_arg = None
    /\ pc \notin {"validate", "extent", "check"}

BoundsError == Raise("ValueError", "min_box_size >= max_box_size")

-----------------------------------------------------------------------------
(* Claims about the cells of the grid, under SpecGrid *)

\* the range is k * box_size with k >= 1
ExactMultiple(extent, b) == extent > 0 /\ extent % b = 0

\* the number of cells along an axis as C26 states it
ClaimedCells(extent, b) ==
    IF ExactMultiple(extent, b) THEN extent \div b ELSE (extent \div b) + 1

\* the cell of coordinate x as C26 states it: half-open cells from the
\* minimum, the maximum put into the last cell when the range is k * box_size
ClaimedCell(x, lo, extent, b) ==
    IF ExactMultiple(extent, b) /\ x = lo + extent
    THEN extent \div b
    ELSE ((x - lo) \div b) + 1

-----------------------------------------------------------------------------
(* analyze_csv: the coordinates are read from the rows of a CSV file *)

MaxCsvRows == 3

\* the cells of the latitude and of the longitude column; an empty cell is read
\* by pd.read_csv (line 266) as NaN
CsvLatitudes == {NaN, F(0), F(8)}
CsvLongitudes == {NaN, F(0), F(16)}
CsvMaxBoxSizes == {None, F(4)}
CsvScales == {2}

\* Series.dropna().values: the values that are not NaN, in row order
DropNa(column) == SelectSeq(column, LAMBDA v : v # NaN)

\* data[lat_col], data[lon_col]
Column(data, col) == [r \in DOMAIN data |-> data[r][col]]

\* line 273
MinLen(a, b) == IF Len(a) <= Len(b) THEN Len(a) ELSE Len(b)

\* the file on disk and the keyword arguments of analyze_csv; box_counting has
\* not been entered
InitCsv ==
    /\ \E n \in 1..MaxCsvRows :
         csv \in [1..n -> [latitude : CsvLatitudes, longitude : CsvLongitudes]]
    /\ latitudes = <<>>
    /\ longitudes = <<>>
    /\ min_box_size = F(1)
    /\ max_box_size \in CsvMaxBoxSizes
    /\ num_scales \in CsvScales
    /\ return_details = FALSE
    /\ pc = "analyze_csv"
    /\ lat_arr = <<>>
    /\ lon_arr = <<>>
    /\ lat_range = None
    /\ lon_range = None
    /\ box_sizes = <<>>
    /\ counts = <<>>
    /\ box_sizes_valid = <<>>
    /\ counts_valid = <<>>
    /\ warnings = <<>>
    /\ fit = NoFit
    /\ results = NoResults
    /\ error = NoError
    /\ FirstCall
    /\ tasks = NoTasks
    /\ registry_file = NoFile
    /\ sessions = NoSessions
    /\ call = NoCall

\* lines 265-278: each column drops its own missing values, both are cut to
\* the shorter length, and box_counting is entered with them
AnalyzeCsv ==
    /\ pc = "analyze_csv"
    /\ LET lats == DropNa(Column(csv, "latitude"))
           lons == DropNa(Column(csv, "longitude"))
           min_len == MinLen(lats, lons)
       IN  /\ latitudes' = SubSeq(lats, 1, min_len)
           /\ longitudes' = SubSeq(lons, 1, min_len)
    /\ pc' = "validate"
    /\ UNCHANGED <<min_box_size, num_scales, return_details, max_box_size_arg,
                   max_box_size, prev, tasks, outside, locals, lat_arr, lon_arr,
                   call>>

NextCsv ==
    \/ AnalyzeCsv
    \/ Next

SpecCsv == InitCsv /\ [][NextCsv]_vars

\* C27: every (latitude, longitude) pair analysed by analyze_csv stands
\* together in one row of the file, also when rows lack a latitude or a
\* longitude.
C27_PairsFromOneRow ==
    pc # "analyze_csv" =>
        \A i \in DOMAIN latitudes :
            \E r \in DOMAIN csv : /\ csv[r].latitude = latitudes[i]
                                  /\ csv[r].longitude = longitudes[i]

\* the complete rows of the file, in order
CompleteRows == SelectSeq(csv, LAMBDA row : row.latitude # NaN /\ row.longitude # NaN)

\* when every row that lacks a value lacks both, the pairs analysed are the
\* complete rows, in row order
C27_WhenMissingTogether ==
    (/\ pc # "analyze_csv"
     /\ \A r \in DOMAIN csv : csv[r].latitude = NaN <=> csv[r].longitude = NaN) =>
        /\ Len(latitudes) = Len(CompleteRows)
        /\ \A i \in DOMAIN latitudes : /\ latitudes[i] = CompleteRows[i].latitude
                                       /\ longitudes[i] = CompleteRows[i].longitude

-----------------------------------------------------------------------------
(* data_registry.py: the registry of analysed datasets, one call at a time *)

MaxDatasets == 3

\* the arguments of the calls: names, a field that add_dataset stores as given
\* (event_count stands for all of them), and the D, r_squared, std_error of a
\* fractal analysis
RegistryNames == {"a", "b"}
EventCounts == {10, 20}
Analyses == {<<None, None, None>>, <<F(2), F(1), F(0)>>}

\* REGISTRY_FILE exists but json.load fails on it
UnreadableFile == [kind |-> "unreadable", datasets |-> <<>>]

\* lines 13-21: registry["datasets"] of load_registry(); empty when the file is
\* missing or unreadable
LoadRegistry(file) == IF file.kind = "json" THEN file.datasets ELSE <<>>

\* lines 23-26: the file after save_registry(registry)
SaveRegistry(datasets) == [kind |-> "json", datasets |-> datasets]

\* lines 66-70 and 96-100
FractalAnalysis(a) == [D |-> a[1], r_squared |-> a[2], std_error |-> a[3]]

\* lines 48-72: the dataset add_dataset builds from a loaded registry
NewDataset(datasets, name, event_count, a) ==
    [id |-> Len(datasets) + 1,
     name |-> name,
     event_count |-> event_count,
     fractal_analysis |-> FractalAnalysis(a)]

\* lines 28-76
AddDataset ==
    \E name \in RegistryNames, event_count \in EventCounts, a \in Analyses :
        LET registry == LoadRegistry(registry_file)
            dataset == NewDataset(registry, name, event_count, a)
        IN  /\ Len(registry) < MaxDatasets
            /\ registry_file' = SaveRegistry(Append(registry, dataset))
            /\ prev' = [fn |-> "add_dataset", name |-> name, ret |-> dataset,
                        before |-> registry_file]
            /\ UNCHANGED <<args, max_box_size, locals, lat_arr, lon_arr, pc,
                           call, tasks, csv, sessions>>

\* lines 94-95: the position of the first dataset called name, 0 if none is
FirstNamed(datasets, name) ==
    IF \E i \in DOMAIN datasets : datasets[i].name = name
    THEN CHOOSE i \in DOMAIN datasets :
            /\ datasets[i].name = name
            /\ \A j \in 1..(i - 1) : datasets[j].name # name
    ELSE 0

\* every dataset called name gets the new analysis
UpdatedEveryNamed(datasets, name, a) ==
    [i \in DOMAIN datasets |->
        IF datasets[i].name = name
        THEN [datasets[i] EXCEPT !.fractal_analysis = FractalAnalysis(a)]
        ELSE datasets[i]]

\* lines 94-100: the loop assigns to the first dataset called name and returns
UpdatedDatasets(datasets, name, a) ==
    LET i == FirstNamed(datasets, name)
    IN  IF i = 0 THEN datasets
        ELSE [datasets EXCEPT ![i].fractal_analysis = FractalAnalysis(a)]

\* lines 91-103: saved only when a dataset called name was found
UpdateDatasetAnalysis ==
    \E name \in RegistryNames, a \in Analyses :
        LET registry == LoadRegistry(registry_file)
            found == FirstNamed(registry, name) # 0
        IN  /\ IF found
               THEN registry_file' = SaveRegistry(UpdatedDatasets(registry, name, a))
               ELSE UNCHANGED registry_file
            /\ prev' = [fn |-> "update_dataset_analysis", name |-> name,
                        ret |-> found, before |-> registry_file, analysis |-> a]
            /\ UNCHANGED <<args, max_box_size, locals, lat_arr, lon_arr, pc,
                           call, tasks, csv, sessions>>

\* line 108
WithoutNamed(datasets, name) == SelectSeq(datasets, LAMBDA ds : ds.name # name)

\* lines 105-109
DeleteDataset ==
    \E name \in RegistryNames :
        LET registry == LoadRegistry(registry_file)
        IN  /\ registry_file' = SaveRegistry(WithoutNamed(registry, name))
            /\ prev' = [fn |-> "delete_dataset", name |-> name, ret |-> None,
                        before |-> registry_file]
            /\ UNCHANGED <<args, max_box_size, locals, lat_arr, lon_arr, pc,
                           call, tasks, csv, sessions>>

\* no call has been made: the file is missing, or unreadable
InitRegistry ==
    /\ registry_file \in {NoFile, UnreadableFile}
    /\ latitudes = <<>>
    /\ longitudes = <<>>
    /\ min_box_size = F(1)
    /\ max_box_size = None
    /\ num_scales = 1
    /\ return_details = FALSE
    /\ LocalsAtEntry
    /\ FirstCall
    /\ tasks = NoTasks
    /\ csv = <<>>
    /\ sessions = NoSessions
    /\ call = NoCall

NextRegistry ==
    \/ AddDataset
    \/ UpdateDatasetAnalysis
    \/ DeleteDataset

SpecRegistry == InitRegistry /\ [][NextRegistry]_vars

-----------------------------------------------------------------------------
(* Claims about the registry, under SpecRegistry *)

\* the datasets a reader of the file gets
Stored == LoadRegistry(registry_file)

\* C28: no two datasets stored in the registry have the same id.
C28_UniqueIds ==
    \A i, j \in DOMAIN Stored : Stored[i].id = Stored[j].id => i = j

UpdateCalled == prev.fn = "update_dataset_analysis"

\* C30: update_dataset_analysis returns True exactly when a dataset of that
\* name is stored; then only the fractal_analysis of the first one changes;
\* when it returns False the file is as it was.
C30_UpdatesFirstMatchOnly ==
    IF ~UpdateCalled THEN TRUE
    ELSE LET before == LoadRegistry(prev.before)
             named == {i \in DOMAIN before : before[i].name = prev.name}
         IN  /\ prev.ret = (named # {})
             /\ prev.ret = FALSE => registry_file = prev.before
             /\ prev.ret = TRUE =>
                   LET first == CHOOSE i \in named : \A j \in named : i <= j
                   IN  /\ Len(Stored) = Len(before)
                       /\ \A i \in DOMAIN before :
                             /\ Stored[i].id = before[i].id
                             /\ Stored[i].name = before[i].name
                             /\ Stored[i].event_count = before[i].event_count
                             /\ i # first =>
                                  Stored[i].fractal_analysis = before[i].fractal_analysis
                       /\ Stored[first].fractal_analysis = FractalAnalysis(prev.analysis)

\* two datasets are called "a"; the update of "a" changed the first of them
\* and left the second with the analysis it had
C30_Witness ==
    /\ UpdateCalled
    /\ prev.name = "a"
    /\ prev.ret = TRUE
    /\ Len(Stored) = 3
    /\ Stored[1].name = "b"
    /\ Stored[2].name = "a"
    /\ Stored[3].name = "a"
    /\ LoadRegistry(prev.before)[2].fractal_analysis = FractalAnalysis(<<None, None, None>>)
    /\ Stored[2].fractal_analysis = FractalAnalysis(<<F(2), F(1), F(0)>>)
    /\ Stored[3].fractal_analysis = FractalAnalysis(<<None, None, None>>)

\* an update of a name that is not stored returned False and wrote nothing:
\* the file is still missing
C30_WitnessNotFound ==
    /\ UpdateCalled
    /\ prev.ret = FALSE
    /\ registry_file = NoFile

-----------------------------------------------------------------------------
(* Two dashboard sessions, each registering the dataset it has fetched *)

MaxStored == 2

Sessions == {1, 2}

\* app_v2.py line 884: a session is about to call add_dataset(name, ...)
SessionAtAdd(name, event_count) ==
    [pc |-> "add_dataset", name |-> name, event_count |-> event_count,
     registry |-> <<>>, dataset |-> <<>>]

\* the analysis the session got from box_counting (app_v2.py lines 897-899)
SessionAnalysis == <<F(2), F(1), F(0)>>

\* the datasets of n earlier add_dataset calls
RECURSIVE AddedInTurn(_)
AddedInTurn(names) ==
    IF names = <<>> THEN <<>>
    ELSE LET earlier == AddedInTurn(SubSeq(names, 1, Len(names) - 1))
         IN  Append(earlier, NewDataset(earlier, names[Len(names)], 10, SessionAnalysis))

\* the registry holds what earlier calls left; both sessions have fetched
\* their data and are about to register it
InitSessions ==
    /\ \/ registry_file = NoFile
       \/ \E n \in 0..MaxStored : \E names \in [1..n -> RegistryNames] :
             registry_file = SaveRegistry(AddedInTurn(names))
    /\ sessions \in [Sessions -> {SessionAtAdd(name, event_count) :
                                     name \in RegistryNames, event_count \in EventCounts}]
    /\ prev = [fn |-> "get_all_datasets", ret |-> LoadRegistry(registry_file)]
    /\ latitudes = <<>>
    /\ longitudes = <<>>
    /\ min_box_size = F(1)
    /\ max_box_size = None
    /\ max_box_size_arg = None
    /\ num_scales = 1
    /\ return_details = FALSE
    /\ LocalsAtEntry
    /\ tasks = NoTasks
    /\ csv = <<>>
    /\ call = NoCall

\* data_registry.py line 46: the session reads the file
SessionLoad(s) ==
    /\ sessions[s].pc = "add_dataset"
    /\ sessions' = [sessions EXCEPT ![s].registry = LoadRegistry(registry_file),
                                    ![s].pc = "loaded"]
    /\ UNCHANGED <<args, max_box_size, locals, lat_arr, lon_arr, pc, call, tasks,
                   csv, prev, registry_file>>

\* data_registry.py lines 48-76: the session appends its dataset to what it
\* read and writes the file
SessionSave(s) ==
    /\ sessions[s].pc = "loaded"
    /\ LET dataset == NewDataset(sessions[s].registry, sessions[s].name,
                                 sessions[s].event_count, SessionAnalysis)
       IN  /\ registry_file' = SaveRegistry(Append(sessions[s].registry, dataset))
           /\ sessions' = [sessions EXCEPT ![s].dataset = dataset, ![s].pc = "done"]
    /\ UNCHANGED <<args, max_box_size, locals, lat_arr, lon_arr, pc, call, tasks,
                   csv, prev>>

NextSessions ==
    \E s \in Sessions :
        \/ SessionLoad(s)
        \/ SessionSave(s)

SpecSessions == InitSessions /\ [][NextSessions]_vars

-----------------------------------------------------------------------------
(* Claims about concurrent sessions, under SpecSessions *)

BothAdded == \A s \in Sessions : sessions[s].pc = "done"

StoredSet == {Stored[i] : i \in DOMAIN Stored}

\* both added datasets and every dataset stored before are in the file
NothingLost ==
    /\ \A s \in Sessions : sessions[s].dataset \in StoredSet
    /\ \A i \in DOMAIN prev.ret : prev.ret[i] \in StoredSet

\* C29: after any interleaving of the two add_dataset calls the saved registry
\* holds both added datasets and every dataset that was there before.
C29_NoLostUpdate == BothAdded => NothingLost

\* when one session read the file after the other had written it, nothing is
\* lost
C29_WhenOneAfterTheOther ==
    (BothAdded /\ Len(sessions[1].registry) # Len(sessions[2].registry)) => NothingLost

====
